---- MODULE Spec2Model ----
(***************************************************************************)
(* Model of eliminacion_Archivos_duplicados.py: a directory tree is        *)
(* scanned, files are grouped by the SHA-256 of their content, and of each *)
(* group of two or more every file but the most recently modified one is   *)
(* removed after the user confirms.                                        *)
(*                                                                         *)
(* A path is a natural number: its position in the traversal order of      *)
(* os.walk.  The file system maps every path to a record; the record of a  *)
(* path that names no file has existe = FALSE; a path may be a symbolic    *)
(* link to another path.  Environment failures are file attributes         *)
(* (legible: open/read succeeds, estatable: getmtime succeeds), except the *)
(* outcome of os.remove on an existing entry and of every write to         *)
(* standard output (print, the prompt of input), which the environment     *)
(* picks at each call: standard output may be closed or may block.  Only   *)
(* the print of line 128 stands inside a try; an exception of any other    *)
(* write leaves main, and the run is over without a last message.  So does *)
(* the EOFError of input when standard input is at its end.  A string is a *)
(* sequence of Unicode code points.                                        *)
(***************************************************************************)
EXTENDS Integers, Sequences, FiniteSets, TLC

VARIABLES
    fs,               \* the file system: path -> file record
    pc,               \* position of the program / of the function under call
    carpeta,          \* main: the directory typed by the user (line 174)
    duplicados,       \* dict hash -> list of paths, in insertion order
    listado,          \* mostrar_duplicados_encontrados has printed the groups
    confirmar,        \* main: the answer after strip().lower() (line 190)
    numero_grupo,     \* eliminar_duplicados: index of the group being processed
    rutas,            \* archivo_mas_reciente: its argument
    mas_reciente,     \* archivo_mas_reciente: first component of the result
    copias,           \* archivo_mas_reciente: second component of the result
    i_copia,          \* eliminar_duplicados: position in the removal loop
    total_eliminados, \* eliminar_duplicados: counter of line 110
    intentos,         \* every os.remove call so far: <<path, succeeded>>
    conservados,      \* the keep path printed for each processed group
    mensaje,          \* the last line the run printed before returning;
                      \* empty when an uncaught exception ended the run
    corrida,          \* how many times the program has been started
    previa_limpia,    \* the previous run removed every copy it tried to
    excepcion         \* the uncaught exception that ended the run: "" (none),
                      \* "salida" (a write to standard output raised),
                      \* "entrada" (input raised EOFError)

vars == <<fs, pc, carpeta, duplicados, listado, confirmar, numero_grupo, rutas,
          mas_reciente, copias, i_copia, total_eliminados, intentos,
          conservados, mensaje, corrida, previa_limpia, excepcion>>

-----------------------------------------------------------------------------
(* Bounds *)

\* files in the tree of the whole-program specification
MaxArchivos == 3
\* times the program is started on the same tree
MaxCorridas == 2
\* files in the tree of the single run that is followed to its end
MaxArchivosTermina == 3
\* files in the tree handed to buscar_duplicados alone
MaxArchivosBuscar == 4
\* files in the tree whose groups are handed to eliminar_duplicados alone
MaxArchivosElim == 3
\* paths in the list handed to archivo_mas_reciente alone
MaxRutas == 3
\* largest modification time handed to archivo_mas_reciente alone
MaxFecha == 1

\* archivo.read(4096)
TAM_BLOQUE == 4096

\* file contents (byte strings); <<>> is the empty file
Contenidos == {<<>>, <<7>>, <<7, 8>>}
ContenidosPrograma == {<<>>, <<7>>}
\* modification times; a time below 0 is a date before the epoch
Fechas == -1 .. MaxFecha
FechasPrograma == {0, 1}

\* the paths of the model: "d" is the directory that holds the tree, "f" a
\* regular file, "x" a path that is not there
RutaDir == <<100>>
RutaArchivo == <<102>>
RutaInexistente == <<120>>
Carpetas == {RutaDir, RutaArchivo, RutaInexistente, <<>>}

\* what the user types at the first prompt:
\* d, " d\t", "d", ' "d" ', '" d"', f, x, "x", the empty line
EntradasCarpeta ==
    { <<100>>, <<32, 100, 9>>, <<34, 100, 34>>, <<32, 34, 100, 34, 32>>,
      <<34, 32, 100, 34>>, <<102>>, <<120>>, <<34, 120, 34>>, <<>> }

\* what the user types at the confirmation prompt:
\* si, SI, " si ", "\tSi", "si\r", NBSP si, no, the empty line, " ", s,
\* "s i", sii, S + U+0130 (whose lower case has two characters), "sí"
Respuestas ==
    { <<115, 105>>, <<83, 73>>, <<32, 115, 105, 32>>, <<9, 83, 105>>,
      <<115, 105, 13>>, <<160, 115, 105>>, <<110, 111>>, <<>>, <<32>>,
      <<115>>, <<115, 32, 105>>, <<115, 105, 105>>, <<83, 304>>,
      <<115, 237>> }

-----------------------------------------------------------------------------
(* The file system *)

\* the record of a path: existe says the directory entry is there (lexists);
\* enlace is 0 for a regular file and the path pointed to for a symbolic link,
\* whose other fields are not looked at
ArchivoAusente ==
    [existe |-> FALSE, contenido |-> <<>>, legible |-> FALSE,
     estatable |-> FALSE, fecha |-> 0, enlace |-> 0]

ArchivosPresentes(C, F) ==
    [existe : {TRUE}, contenido : C, legible : BOOLEAN,
     estatable : {TRUE}, fecha : F, enlace : {0}]
    \cup
    [existe : {TRUE}, contenido : C, legible : BOOLEAN,
     estatable : {FALSE}, fecha : {0}, enlace : {0}]

Enlace(t) ==
    [existe |-> TRUE, contenido |-> <<>>, legible |-> TRUE,
     estatable |-> TRUE, fecha |-> 0, enlace |-> t]

\* the trees of n paths whose regular files are taken from A; any path may
\* instead be a symbolic link to another path of the tree
ConEnlaces(n, A) ==
    {f \in [1 .. n -> A \cup {Enlace(t) : t \in 1 .. n}] :
        \A p \in 1 .. n : f[p].enlace # p}

\* what open, stat and os.path.exists reach from a path: the path itself for
\* a regular file, the end of the chain for a symbolic link, 0 when the entry
\* is missing, the chain dangles or loops
RECURSIVE Seguir(_, _, _)
Seguir(f, p, k) ==
    IF ~f[p].existe THEN 0
    ELSE IF f[p].enlace = 0 THEN p
    ELSE IF k = 0 THEN 0
    ELSE Seguir(f, f[p].enlace, k - 1)

Destino(f, p) == Seguir(f, p, Cardinality(DOMAIN f))

\* os.path.isdir(carpeta): "dir" is the one directory, the root of fs
os_path_isdir(c) == c = RutaDir

RECURSIVE Existentes(_, _)
Existentes(f, n) ==
    IF n = 0 THEN <<>>
    ELSE LET resto == Existentes(f, n - 1)
         IN  IF f[n].existe THEN Append(resto, n) ELSE resto

\* a walk that lists the tree whatever the root is
os_walk_SinRaiz(f, c) == Existentes(f, Cardinality(DOMAIN f))

\* os.walk(carpeta) flattened: the entries listed as files under carpeta, in
\* traversal order (a symbolic link to a file, or a broken one, is listed as a
\* file); a top that is no directory yields nothing (scandir's error is
\* swallowed, onerror=None)
os_walk(f, c) ==
    IF os_path_isdir(c) THEN Existentes(f, Cardinality(DOMAIN f)) ELSE <<>>

-----------------------------------------------------------------------------
(* obtener_hash *)

None == <<"None">>

Min(a, b) == IF a < b THEN a ELSE b

\* archivo.read(n) at offset pos (1-based)
archivo_read(contenido, pos, n) ==
    SubSeq(contenido, pos, Min(pos + n - 1, Len(contenido)))

sha_update(sha, bloque) == sha \o bloque

\* SHA-256 is taken as collision free: the digest names the message
sha_hexdigest(sha) == <<"sha256", sha>>

RECURSIVE LeerBloques(_, _, _)
LeerBloques(contenido, pos, sha) ==
    LET bloque == archivo_read(contenido, pos, TAM_BLOQUE)
    IN  IF bloque = <<>> THEN sha
        ELSE LeerBloques(contenido, pos + Len(bloque), sha_update(sha, bloque))

\* open(ruta, "rb") and every read succeed
SePuedeLeer(f, ruta) == Destino(f, ruta) # 0 /\ f[Destino(f, ruta)].legible

obtener_hash(f, ruta) ==
    IF ~SePuedeLeer(f, ruta) THEN None
    ELSE sha_hexdigest(LeerBloques(f[Destino(f, ruta)].contenido, 1, <<>>))

-----------------------------------------------------------------------------
(* buscar_duplicados *)

\* position of hash h in the dict d, 0 when absent
RECURSIVE Posicion(_, _, _)
Posicion(d, h, i) ==
    IF i > Len(d) THEN 0
    ELSE IF d[i].hash = h THEN i
    ELSE Posicion(d, h, i + 1)

\* lines 61-64
Registrar(d, h, ruta) ==
    LET d1 == IF Posicion(d, h, 1) = 0
              THEN Append(d, [hash |-> h, rutas |-> <<>>]) ELSE d
        k  == Posicion(d1, h, 1)
    IN  [d1 EXCEPT ![k].rutas = Append(@, ruta)]

\* line 58: the file is skipped
SeOmite(hash_archivo) == hash_archivo = None

RECURSIVE Recorrer(_, _, _, _)
Recorrer(f, archivos, i, d) ==
    IF i > Len(archivos) THEN d
    ELSE LET hash_archivo == obtener_hash(f, archivos[i])
         IN  IF SeOmite(hash_archivo)
             THEN Recorrer(f, archivos, i + 1, d)
             ELSE Recorrer(f, archivos, i + 1,
                           Registrar(d, hash_archivo, archivos[i]))

\* a filter that keeps every hash that was seen at all
EstaDuplicado_UnoBasta(rs) == Len(rs) >= 1

\* line 68
EstaDuplicado(rs) == Len(rs) > 1

Filtrar(d) == SelectSeq(d, LAMBDA g : EstaDuplicado(g.rutas))

buscar_duplicados(f, c) == Filtrar(Recorrer(f, os_walk(f, c), 1, <<>>))

-----------------------------------------------------------------------------
(* archivo_mas_reciente *)

\* lines 86-90
fecha_modificacion(f, ruta) ==
    LET d == Destino(f, ruta)
    IN  IF d # 0 /\ f[d].estatable THEN f[d].fecha ELSE 0

RECURSIVE ConFechas(_, _, _)
ConFechas(f, rs, i) ==
    IF i > Len(rs) THEN <<>>
    ELSE <<[ruta |-> rs[i], fecha |-> fecha_modificacion(f, rs[i])]>>
         \o ConFechas(f, rs, i + 1)

\* the comparison of a min
Supera_Invertida(x, mejor) == x.fecha < mejor.fecha

\* max keeps the first of several maximal items: a later item replaces the
\* best so far only when its key is strictly greater
Supera(x, mejor) == x.fecha > mejor.fecha

RECURSIVE MaxDesde(_, _, _)
MaxDesde(pares, i, mejor) ==
    IF i > Len(pares) THEN mejor
    ELSE MaxDesde(pares, i + 1,
                  IF Supera(pares[i], mejor) THEN pares[i] ELSE mejor)

\* line 95
max_por_fecha(pares) == MaxDesde(pares, 2, pares[1])

\* a filter that lets every path through
EsCopia_Todas(ruta, reciente) == TRUE

\* line 98
EsCopia(ruta, reciente) == ruta # reciente

archivo_mas_reciente(f, rs) ==
    LET reciente == max_por_fecha(ConFechas(f, rs, 1)).ruta
    IN  [mas_reciente |-> reciente,
         copias |-> SelectSeq(rs, LAMBDA r : EsCopia(r, reciente))]

-----------------------------------------------------------------------------
(* input(...).strip().lower(): a string is a sequence of Unicode code points *)

\* the characters str.strip() removes: those for which str.isspace() holds
EsEspacio(ch) ==
    \/ ch \in 9 .. 13
    \/ ch \in 28 .. 32
    \/ ch \in {133, 160, 5760, 8232, 8233, 8239, 8287, 12288}
    \/ ch \in 8192 .. 8202

RECURSIVE lstrip(_)
lstrip(s) ==
    IF s # <<>> /\ EsEspacio(Head(s)) THEN lstrip(Tail(s)) ELSE s

RECURSIVE rstrip(_)
rstrip(s) ==
    IF s # <<>> /\ EsEspacio(s[Len(s)])
    THEN rstrip(SubSeq(s, 1, Len(s) - 1)) ELSE s

strip(s) == rstrip(lstrip(s))

\* str.strip('"')
RECURSIVE lstrip_comillas(_)
lstrip_comillas(s) ==
    IF s # <<>> /\ Head(s) = 34 THEN lstrip_comillas(Tail(s)) ELSE s

RECURSIVE rstrip_comillas(_)
rstrip_comillas(s) ==
    IF s # <<>> /\ s[Len(s)] = 34
    THEN rstrip_comillas(SubSeq(s, 1, Len(s) - 1)) ELSE s

strip_comillas(s) == rstrip_comillas(lstrip_comillas(s))

\* the simple lower-case mapping of the Unicode database Python uses, beyond
\* ASCII: <<first, last, step, offset>>; every step-th code point from first
\* to last lowers to itself plus offset
TablaLower ==
    { <<65, 90, 1, 32>>, <<192, 214, 1, 32>>, <<216, 222, 1, 32>>, <<256, 302,
      2, 1>>, <<306, 310, 2, 1>>, <<313, 327, 2, 1>>, <<330, 374, 2, 1>>, <<376,
      376, 1, -121>>, <<377, 381, 2, 1>>, <<385, 385, 1, 210>>, <<386, 388, 2,
      1>>, <<390, 390, 1, 206>>, <<391, 391, 1, 1>>, <<393, 394, 1, 205>>,
      <<395, 395, 1, 1>>, <<398, 398, 1, 79>>, <<399, 399, 1, 202>>, <<400, 400,
      1, 203>>, <<401, 401, 1, 1>>, <<403, 403, 1, 205>>, <<404, 404, 1, 207>>,
      <<406, 406, 1, 211>>, <<407, 407, 1, 209>>, <<408, 408, 1, 1>>, <<412,
      412, 1, 211>>, <<413, 413, 1, 213>>, <<415, 415, 1, 214>>, <<416, 420, 2,
      1>>, <<422, 422, 1, 218>>, <<423, 423, 1, 1>>, <<425, 425, 1, 218>>,
      <<428, 428, 1, 1>>, <<430, 430, 1, 218>>, <<431, 431, 1, 1>>, <<433, 434,
      1, 217>>, <<435, 437, 2, 1>>, <<439, 439, 1, 219>>, <<440, 440, 1, 1>>,
      <<444, 444, 1, 1>>, <<452, 452, 1, 2>>, <<453, 453, 1, 1>>, <<455, 455, 1,
      2>>, <<456, 456, 1, 1>>, <<458, 458, 1, 2>>, <<459, 475, 2, 1>>, <<478,
      494, 2, 1>>, <<497, 497, 1, 2>>, <<498, 500, 2, 1>>, <<502, 502, 1, -97>>,
      <<503, 503, 1, -56>>, <<504, 542, 2, 1>>, <<544, 544, 1, -130>>, <<546,
      562, 2, 1>>, <<570, 570, 1, 10795>>, <<571, 571, 1, 1>>, <<573, 573, 1,
      -163>>, <<574, 574, 1, 10792>>, <<577, 577, 1, 1>>, <<579, 579, 1, -195>>,
      <<580, 580, 1, 69>>, <<581, 581, 1, 71>>, <<582, 590, 2, 1>>, <<880, 882,
      2, 1>>, <<886, 886, 1, 1>>, <<895, 895, 1, 116>>, <<902, 902, 1, 38>>,
      <<904, 906, 1, 37>>, <<908, 908, 1, 64>>, <<910, 911, 1, 63>>, <<913, 929,
      1, 32>>, <<931, 939, 1, 32>>, <<975, 975, 1, 8>>, <<984, 1006, 2, 1>>,
      <<1012, 1012, 1, -60>>, <<1015, 1015, 1, 1>>, <<1017, 1017, 1, -7>>,
      <<1018, 1018, 1, 1>>, <<1021, 1023, 1, -130>>, <<1024, 1039, 1, 80>>,
      <<1040, 1071, 1, 32>>, <<1120, 1152, 2, 1>>, <<1162, 1214, 2, 1>>, <<1216,
      1216, 1, 15>>, <<1217, 1229, 2, 1>>, <<1232, 1326, 2, 1>>, <<1329, 1366,
      1, 48>>, <<4256, 4293, 1, 7264>>, <<4295, 4295, 1, 7264>>, <<4301, 4301,
      1, 7264>>, <<5024, 5103, 1, 38864>>, <<5104, 5109, 1, 8>>, <<7312, 7354,
      1, -3008>>, <<7357, 7359, 1, -3008>>, <<7680, 7828, 2, 1>>, <<7838, 7838,
      1, -7615>>, <<7840, 7934, 2, 1>>, <<7944, 7951, 1, -8>>, <<7960, 7965, 1,
      -8>>, <<7976, 7983, 1, -8>>, <<7992, 7999, 1, -8>>, <<8008, 8013, 1, -8>>,
      <<8025, 8031, 2, -8>>, <<8040, 8047, 1, -8>>, <<8072, 8079, 1, -8>>,
      <<8088, 8095, 1, -8>>, <<8104, 8111, 1, -8>>, <<8120, 8121, 1, -8>>,
      <<8122, 8123, 1, -74>>, <<8124, 8124, 1, -9>>, <<8136, 8139, 1, -86>>,
      <<8140, 8140, 1, -9>>, <<8152, 8153, 1, -8>>, <<8154, 8155, 1, -100>>,
      <<8168, 8169, 1, -8>>, <<8170, 8171, 1, -112>>, <<8172, 8172, 1, -7>>,
      <<8184, 8185, 1, -128>>, <<8186, 8187, 1, -126>>, <<8188, 8188, 1, -9>>,
      <<8486, 8486, 1, -7517>>, <<8490, 8490, 1, -8383>>, <<8491, 8491, 1,
      -8262>>, <<8498, 8498, 1, 28>>, <<8544, 8559, 1, 16>>, <<8579, 8579, 1,
      1>>, <<9398, 9423, 1, 26>>, <<11264, 11311, 1, 48>>, <<11360, 11360, 1,
      1>>, <<11362, 11362, 1, -10743>>, <<11363, 11363, 1, -3814>>, <<11364,
      11364, 1, -10727>>, <<11367, 11371, 2, 1>>, <<11373, 11373, 1, -10780>>,
      <<11374, 11374, 1, -10749>>, <<11375, 11375, 1, -10783>>, <<11376, 11376,
      1, -10782>>, <<11378, 11378, 1, 1>>, <<11381, 11381, 1, 1>>, <<11390,
      11391, 1, -10815>>, <<11392, 11490, 2, 1>>, <<11499, 11501, 2, 1>>,
      <<11506, 11506, 1, 1>>, <<42560, 42604, 2, 1>>, <<42624, 42650, 2, 1>>,
      <<42786, 42798, 2, 1>>, <<42802, 42862, 2, 1>>, <<42873, 42875, 2, 1>>,
      <<42877, 42877, 1, -35332>>, <<42878, 42886, 2, 1>>, <<42891, 42891, 1,
      1>>, <<42893, 42893, 1, -42280>>, <<42896, 42898, 2, 1>>, <<42902, 42920,
      2, 1>>, <<42922, 42922, 1, -42308>>, <<42923, 42923, 1, -42319>>, <<42924,
      42924, 1, -42315>>, <<42925, 42925, 1, -42305>>, <<42926, 42926, 1,
      -42308>>, <<42928, 42928, 1, -42258>>, <<42929, 42929, 1, -42282>>,
      <<42930, 42930, 1, -42261>>, <<42931, 42931, 1, 928>>, <<42932, 42946, 2,
      1>>, <<42948, 42948, 1, -48>>, <<42949, 42949, 1, -42307>>, <<42950,
      42950, 1, -35384>>, <<42951, 42953, 2, 1>>, <<42960, 42960, 1, 1>>,
      <<42966, 42968, 2, 1>>, <<42997, 42997, 1, 1>>, <<65313, 65338, 1, 32>>,
      <<66560, 66599, 1, 40>>, <<66736, 66771, 1, 40>>, <<66928, 66938, 1, 39>>,
      <<66940, 66954, 1, 39>>, <<66956, 66962, 1, 39>>, <<66964, 66965, 1, 39>>,
      <<68736, 68786, 1, 64>>, <<71840, 71871, 1, 32>>, <<93760, 93791, 1, 32>>,
      <<125184, 125217, 1, 34>> }

\* the case-ignorable code points, as ranges <<first, last>>
TablaIgnorable ==
    { <<39, 39>>, <<46, 46>>, <<58, 58>>, <<94, 94>>, <<96, 96>>, <<168, 168>>,
      <<173, 173>>, <<175, 175>>, <<180, 180>>, <<183, 184>>, <<688, 879>>,
      <<884, 885>>, <<890, 890>>, <<900, 901>>, <<903, 903>>, <<1155, 1161>>,
      <<1369, 1369>>, <<1375, 1375>>, <<1425, 1469>>, <<1471, 1471>>, <<1473,
      1474>>, <<1476, 1477>>, <<1479, 1479>>, <<1524, 1524>>, <<1536, 1541>>,
      <<1552, 1562>>, <<1564, 1564>>, <<1600, 1600>>, <<1611, 1631>>, <<1648,
      1648>>, <<1750, 1757>>, <<1759, 1768>>, <<1770, 1773>>, <<1807, 1807>>,
      <<1809, 1809>>, <<1840, 1866>>, <<1958, 1968>>, <<2027, 2037>>, <<2042,
      2042>>, <<2045, 2045>>, <<2070, 2093>>, <<2137, 2139>>, <<2184, 2184>>,
      <<2192, 2193>>, <<2200, 2207>>, <<2249, 2306>>, <<2362, 2362>>, <<2364,
      2364>>, <<2369, 2376>>, <<2381, 2381>>, <<2385, 2391>>, <<2402, 2403>>,
      <<2417, 2417>>, <<2433, 2433>>, <<2492, 2492>>, <<2497, 2500>>, <<2509,
      2509>>, <<2530, 2531>>, <<2558, 2558>>, <<2561, 2562>>, <<2620, 2620>>,
      <<2625, 2626>>, <<2631, 2632>>, <<2635, 2637>>, <<2641, 2641>>, <<2672,
      2673>>, <<2677, 2677>>, <<2689, 2690>>, <<2748, 2748>>, <<2753, 2757>>,
      <<2759, 2760>>, <<2765, 2765>>, <<2786, 2787>>, <<2810, 2815>>, <<2817,
      2817>>, <<2876, 2876>>, <<2879, 2879>>, <<2881, 2884>>, <<2893, 2893>>,
      <<2901, 2902>>, <<2914, 2915>>, <<2946, 2946>>, <<3008, 3008>>, <<3021,
      3021>>, <<3072, 3072>>, <<3076, 3076>>, <<3132, 3132>>, <<3134, 3136>>,
      <<3142, 3144>>, <<3146, 3149>>, <<3157, 3158>>, <<3170, 3171>>, <<3201,
      3201>>, <<3260, 3260>>, <<3263, 3263>>, <<3270, 3270>>, <<3276, 3277>>,
      <<3298, 3299>>, <<3328, 3329>>, <<3387, 3388>>, <<3393, 3396>>, <<3405,
      3405>>, <<3426, 3427>>, <<3457, 3457>>, <<3530, 3530>>, <<3538, 3540>>,
      <<3542, 3542>>, <<3633, 3633>>, <<3636, 3642>>, <<3654, 3662>>, <<3761,
      3761>>, <<3764, 3772>>, <<3782, 3782>>, <<3784, 3789>>, <<3864, 3865>>,
      <<3893, 3893>>, <<3895, 3895>>, <<3897, 3897>>, <<3953, 3966>>, <<3968,
      3972>>, <<3974, 3975>>, <<3981, 3991>>, <<3993, 4028>>, <<4038, 4038>>,
      <<4141, 4144>>, <<4146, 4151>>, <<4153, 4154>>, <<4157, 4158>>, <<4184,
      4185>>, <<4190, 4192>>, <<4209, 4212>>, <<4226, 4226>>, <<4229, 4230>>,
      <<4237, 4237>>, <<4253, 4253>>, <<4348, 4348>>, <<4957, 4959>>, <<5906,
      5908>>, <<5938, 5939>>, <<5970, 5971>>, <<6002, 6003>>, <<6068, 6069>>,
      <<6071, 6077>>, <<6086, 6086>>, <<6089, 6099>>, <<6103, 6103>>, <<6109,
      6109>>, <<6155, 6159>>, <<6211, 6211>>, <<6277, 6278>>, <<6313, 6313>>,
      <<6432, 6434>>, <<6439, 6440>>, <<6450, 6450>>, <<6457, 6459>>, <<6679,
      6680>>, <<6683, 6683>>, <<6742, 6742>>, <<6744, 6750>>, <<6752, 6752>>,
      <<6754, 6754>>, <<6757, 6764>>, <<6771, 6780>>, <<6783, 6783>>, <<6823,
      6823>>, <<6832, 6862>>, <<6912, 6915>>, <<6964, 6964>>, <<6966, 6970>>,
      <<6972, 6972>>, <<6978, 6978>>, <<7019, 7027>>, <<7040, 7041>>, <<7074,
      7077>>, <<7080, 7081>>, <<7083, 7085>>, <<7142, 7142>>, <<7144, 7145>>,
      <<7149, 7149>>, <<7151, 7153>>, <<7212, 7219>>, <<7222, 7223>>, <<7288,
      7293>>, <<7376, 7378>>, <<7380, 7392>>, <<7394, 7400>>, <<7405, 7405>>,
      <<7412, 7412>>, <<7416, 7417>>, <<7468, 7530>>, <<7544, 7544>>, <<7579,
      7679>>, <<8125, 8125>>, <<8127, 8129>>, <<8141, 8143>>, <<8157, 8159>>,
      <<8173, 8175>>, <<8189, 8190>>, <<8203, 8207>>, <<8216, 8217>>, <<8228,
      8228>>, <<8231, 8231>>, <<8234, 8238>>, <<8288, 8292>>, <<8294, 8303>>,
      <<8305, 8305>>, <<8319, 8319>>, <<8336, 8348>>, <<8400, 8432>>, <<11388,
      11389>>, <<11503, 11505>>, <<11631, 11631>>, <<11647, 11647>>, <<11744,
      11775>>, <<11823, 11823>>, <<12293, 12293>>, <<12330, 12333>>, <<12337,
      12341>>, <<12347, 12347>>, <<12441, 12446>>, <<12540, 12542>>, <<40981,
      40981>>, <<42232, 42237>>, <<42508, 42508>>, <<42607, 42610>>, <<42612,
      42621>>, <<42623, 42623>>, <<42652, 42655>>, <<42736, 42737>>, <<42752,
      42785>>, <<42864, 42864>>, <<42888, 42890>>, <<42994, 42996>>, <<43000,
      43001>>, <<43010, 43010>>, <<43014, 43014>>, <<43019, 43019>>, <<43045,
      43046>>, <<43052, 43052>>, <<43204, 43205>>, <<43232, 43249>>, <<43263,
      43263>>, <<43302, 43309>>, <<43335, 43345>>, <<43392, 43394>>, <<43443,
      43443>>, <<43446, 43449>>, <<43452, 43453>>, <<43471, 43471>>, <<43493,
      43494>>, <<43561, 43566>>, <<43569, 43570>>, <<43573, 43574>>, <<43587,
      43587>>, <<43596, 43596>>, <<43632, 43632>>, <<43644, 43644>>, <<43696,
      43696>>, <<43698, 43700>>, <<43703, 43704>>, <<43710, 43711>>, <<43713,
      43713>>, <<43741, 43741>>, <<43756, 43757>>, <<43763, 43764>>, <<43766,
      43766>>, <<43867, 43871>>, <<43881, 43883>>, <<44005, 44005>>, <<44008,
      44008>>, <<44013, 44013>>, <<64286, 64286>>, <<64434, 64450>>, <<65024,
      65039>>, <<65043, 65043>>, <<65056, 65071>>, <<65106, 65106>>, <<65109,
      65109>>, <<65279, 65279>>, <<65287, 65287>>, <<65294, 65294>>, <<65306,
      65306>>, <<65342, 65342>>, <<65344, 65344>>, <<65392, 65392>>, <<65438,
      65439>>, <<65507, 65507>>, <<65529, 65531>>, <<66045, 66045>>, <<66272,
      66272>>, <<66422, 66426>>, <<67456, 67461>>, <<67463, 67504>>, <<67506,
      67514>>, <<68097, 68099>>, <<68101, 68102>>, <<68108, 68111>>, <<68152,
      68154>>, <<68159, 68159>>, <<68325, 68326>>, <<68900, 68903>>, <<69291,
      69292>>, <<69446, 69456>>, <<69506, 69509>>, <<69633, 69633>>, <<69688,
      69702>>, <<69744, 69744>>, <<69747, 69748>>, <<69759, 69761>>, <<69811,
      69814>>, <<69817, 69818>>, <<69821, 69821>>, <<69826, 69826>>, <<69837,
      69837>>, <<69888, 69890>>, <<69927, 69931>>, <<69933, 69940>>, <<70003,
      70003>>, <<70016, 70017>>, <<70070, 70078>>, <<70089, 70092>>, <<70095,
      70095>>, <<70191, 70193>>, <<70196, 70196>>, <<70198, 70199>>, <<70206,
      70206>>, <<70367, 70367>>, <<70371, 70378>>, <<70400, 70401>>, <<70459,
      70460>>, <<70464, 70464>>, <<70502, 70508>>, <<70512, 70516>>, <<70712,
      70719>>, <<70722, 70724>>, <<70726, 70726>>, <<70750, 70750>>, <<70835,
      70840>>, <<70842, 70842>>, <<70847, 70848>>, <<70850, 70851>>, <<71090,
      71093>>, <<71100, 71101>>, <<71103, 71104>>, <<71132, 71133>>, <<71219,
      71226>>, <<71229, 71229>>, <<71231, 71232>>, <<71339, 71339>>, <<71341,
      71341>>, <<71344, 71349>>, <<71351, 71351>>, <<71453, 71455>>, <<71458,
      71461>>, <<71463, 71467>>, <<71727, 71735>>, <<71737, 71738>>, <<71995,
      71996>>, <<71998, 71998>>, <<72003, 72003>>, <<72148, 72151>>, <<72154,
      72155>>, <<72160, 72160>>, <<72193, 72202>>, <<72243, 72248>>, <<72251,
      72254>>, <<72263, 72263>>, <<72273, 72278>>, <<72281, 72283>>, <<72330,
      72342>>, <<72344, 72345>>, <<72752, 72758>>, <<72760, 72765>>, <<72767,
      72767>>, <<72850, 72871>>, <<72874, 72880>>, <<72882, 72883>>, <<72885,
      72886>>, <<73009, 73014>>, <<73018, 73018>>, <<73020, 73021>>, <<73023,
      73029>>, <<73031, 73031>>, <<73104, 73105>>, <<73109, 73109>>, <<73111,
      73111>>, <<73459, 73460>>, <<78896, 78904>>, <<92912, 92916>>, <<92976,
      92982>>, <<92992, 92995>>, <<94031, 94031>>, <<94095, 94111>>, <<94176,
      94177>>, <<94179, 94180>>, <<110576, 110579>>, <<110581, 110587>>,
      <<110589, 110590>>, <<113821, 113822>>, <<113824, 113827>>, <<118528,
      118573>>, <<118576, 118598>>, <<119143, 119145>>, <<119155, 119170>>,
      <<119173, 119179>>, <<119210, 119213>>, <<119362, 119364>>, <<121344,
      121398>>, <<121403, 121452>>, <<121461, 121461>>, <<121476, 121476>>,
      <<121499, 121503>>, <<121505, 121519>>, <<122880, 122886>>, <<122888,
      122904>>, <<122907, 122913>>, <<122915, 122916>>, <<122918, 122922>>,
      <<123184, 123197>>, <<123566, 123566>>, <<123628, 123631>>, <<125136,
      125142>>, <<125252, 125259>>, <<127995, 127999>>, <<917505, 917505>>,
      <<917536, 917631>>, <<917760, 917999>> }

\* the cased code points that are not case-ignorable, as ranges <<first, last>>
TablaConCaja ==
    { <<65, 90>>, <<97, 122>>, <<170, 170>>, <<181, 181>>, <<186, 186>>, <<192,
      214>>, <<216, 246>>, <<248, 442>>, <<444, 447>>, <<452, 659>>, <<661,
      687>>, <<880, 883>>, <<886, 887>>, <<891, 893>>, <<895, 895>>, <<902,
      902>>, <<904, 906>>, <<908, 908>>, <<910, 929>>, <<931, 1013>>, <<1015,
      1153>>, <<1162, 1327>>, <<1329, 1366>>, <<1376, 1416>>, <<4256, 4293>>,
      <<4295, 4295>>, <<4301, 4301>>, <<4304, 4346>>, <<4349, 4351>>, <<5024,
      5109>>, <<5112, 5117>>, <<7296, 7304>>, <<7312, 7354>>, <<7357, 7359>>,
      <<7424, 7467>>, <<7531, 7543>>, <<7545, 7578>>, <<7680, 7957>>, <<7960,
      7965>>, <<7968, 8005>>, <<8008, 8013>>, <<8016, 8023>>, <<8025, 8025>>,
      <<8027, 8027>>, <<8029, 8029>>, <<8031, 8061>>, <<8064, 8116>>, <<8118,
      8124>>, <<8126, 8126>>, <<8130, 8132>>, <<8134, 8140>>, <<8144, 8147>>,
      <<8150, 8155>>, <<8160, 8172>>, <<8178, 8180>>, <<8182, 8188>>, <<8450,
      8450>>, <<8455, 8455>>, <<8458, 8467>>, <<8469, 8469>>, <<8473, 8477>>,
      <<8484, 8484>>, <<8486, 8486>>, <<8488, 8488>>, <<8490, 8493>>, <<8495,
      8500>>, <<8505, 8505>>, <<8508, 8511>>, <<8517, 8521>>, <<8526, 8526>>,
      <<8544, 8575>>, <<8579, 8580>>, <<9398, 9449>>, <<11264, 11387>>, <<11390,
      11492>>, <<11499, 11502>>, <<11506, 11507>>, <<11520, 11557>>, <<11559,
      11559>>, <<11565, 11565>>, <<42560, 42605>>, <<42624, 42651>>, <<42786,
      42863>>, <<42865, 42887>>, <<42891, 42894>>, <<42896, 42954>>, <<42960,
      42961>>, <<42963, 42963>>, <<42965, 42969>>, <<42997, 42998>>, <<43002,
      43002>>, <<43824, 43866>>, <<43872, 43880>>, <<43888, 43967>>, <<64256,
      64262>>, <<64275, 64279>>, <<65313, 65338>>, <<65345, 65370>>, <<66560,
      66639>>, <<66736, 66771>>, <<66776, 66811>>, <<66928, 66938>>, <<66940,
      66954>>, <<66956, 66962>>, <<66964, 66965>>, <<66967, 66977>>, <<66979,
      66993>>, <<66995, 67001>>, <<67003, 67004>>, <<68736, 68786>>, <<68800,
      68850>>, <<71840, 71903>>, <<93760, 93823>>, <<119808, 119892>>, <<119894,
      119964>>, <<119966, 119967>>, <<119970, 119970>>, <<119973, 119974>>,
      <<119977, 119980>>, <<119982, 119993>>, <<119995, 119995>>, <<119997,
      120003>>, <<120005, 120069>>, <<120071, 120074>>, <<120077, 120084>>,
      <<120086, 120092>>, <<120094, 120121>>, <<120123, 120126>>, <<120128,
      120132>>, <<120134, 120134>>, <<120138, 120144>>, <<120146, 120485>>,
      <<120488, 120512>>, <<120514, 120538>>, <<120540, 120570>>, <<120572,
      120596>>, <<120598, 120628>>, <<120630, 120654>>, <<120656, 120686>>,
      <<120688, 120712>>, <<120714, 120744>>, <<120746, 120770>>, <<120772,
      120779>>, <<122624, 122633>>, <<122635, 122654>>, <<125184, 125251>>,
      <<127280, 127305>>, <<127312, 127337>>, <<127344, 127369>> }

EnRangos(tabla, ch) == \E r \in tabla : r[1] <= ch /\ ch <= r[2]

EsIgnorable(ch) == EnRangos(TablaIgnorable, ch)

EsConCaja(ch) == EnRangos(TablaConCaja, ch)

\* the lower case of one character out of context: one code point, or two
\* for U+0130
lower_char(ch) ==
    IF ch < 128 THEN (IF ch \in 65 .. 90 THEN <<ch + 32>> ELSE <<ch>>)
    ELSE IF ch = 304 THEN <<105, 775>>
    ELSE LET rs == {r \in TablaLower :
                      r[1] <= ch /\ ch <= r[2] /\ (ch - r[1]) % r[3] = 0}
         IN  IF rs = {} THEN <<ch>>
             ELSE <<ch + (CHOOSE r \in rs : TRUE)[4]>>

\* the nearest position before i (after i) whose character is not
\* case-ignorable; 0 (Len(s) + 1) when there is none
RECURSIVE AntesNoIgnorable(_, _)
AntesNoIgnorable(s, i) ==
    IF i = 0 THEN 0
    ELSE IF EsIgnorable(s[i]) THEN AntesNoIgnorable(s, i - 1) ELSE i

RECURSIVE DespuesNoIgnorable(_, _)
DespuesNoIgnorable(s, i) ==
    IF i > Len(s) THEN i
    ELSE IF EsIgnorable(s[i]) THEN DespuesNoIgnorable(s, i + 1) ELSE i

\* a capital sigma lowers to the final sigma when a cased letter precedes it
\* and none follows
SigmaFinal(s, i) ==
    LET a == AntesNoIgnorable(s, i - 1)
        d == DespuesNoIgnorable(s, i + 1)
    IN  /\ a > 0
        /\ EsConCaja(s[a])
        /\ (d > Len(s) \/ ~EsConCaja(s[d]))

RECURSIVE LowerDesde(_, _)
LowerDesde(s, i) ==
    IF i > Len(s) THEN <<>>
    ELSE (IF s[i] = 931
          THEN (IF SigmaFinal(s, i) THEN <<962>> ELSE <<963>>)
          ELSE lower_char(s[i]))
         \o LowerDesde(s, i + 1)

lower(s) == LowerDesde(s, 1)

\* a test that takes anything but "no" for a yes
EsAfirmativa_NoEsNo(c) == c # <<110, 111>>

\* line 195: confirmar == "si"
EsAfirmativa(c) == c = <<115, 105>>

\* a test that never finds the dict empty
SinDuplicados_Nunca(d) == FALSE

\* line 184: not duplicados
SinDuplicados(d) == d = <<>>

-----------------------------------------------------------------------------
(* eliminar_duplicados: helpers of the removal loop, lines 125-131 *)

\* what os.remove(ruta) can do: a missing entry always raises, an existing one
\* is removed or raises (permissions, lock) as the environment decides
ResultadosRemove(f, ruta) == IF f[ruta].existe THEN BOOLEAN ELSE {FALSE}

\* the entry of ruta goes, nothing else: a link that pointed to it dangles
os_remove(f, ruta, ok) == IF ok THEN [f EXCEPT ![ruta] = ArchivoAusente] ELSE f

\* what print(f"  Eliminado: {copia}") of line 128 can do once os.remove has
\* returned: write the line, or raise (a standard output that is closed or
\* that would block), which the except of line 130 catches like a failed
\* removal; the line is not reached when os.remove raised
ResultadosPrint(ok) == IF ok THEN BOOLEAN ELSE {FALSE}

\* line 129 is reached only when neither os.remove nor the print of line 128
\* raised
Contar(total, ok, impreso) == IF ok /\ impreso THEN total + 1 ELSE total

\* what print(f"  Error al eliminar ...") of line 131 can do: the except
\* clause is entered when os.remove or the print of line 128 raised, and its
\* own print is under no try
ResultadosInforme(ok, impreso) == IF ok /\ impreso THEN {TRUE} ELSE BOOLEAN

\* the except clause is inside the for loop: the loop goes on to the next copy
SiguienteCopia(i, n, ok) == i + 1

-----------------------------------------------------------------------------
(* The program *)

\* what a write to standard output outside a try can do: return, or raise
\* (BrokenPipeError on a closed pipe, BlockingIOError on a full one)
ResultadosEscritura == BOOLEAN

\* what input can do once its prompt is written: return the line typed, or
\* raise EOFError when standard input is at its end
ResultadosEntrada == BOOLEAN

\* the variables of a freshly started process
Arranque ==
    /\ pc = "inicio"
    /\ carpeta = <<>>
    /\ duplicados = <<>>
    /\ listado = FALSE
    /\ confirmar = <<>>
    /\ numero_grupo = 0
    /\ rutas = <<>>
    /\ mas_reciente = 0
    /\ copias = <<>>
    /\ i_copia = 0
    /\ total_eliminados = 0
    /\ intentos = <<>>
    /\ conservados = <<>>
    /\ mensaje = ""
    /\ excepcion = ""

Arboles(n, C, F) == ConEnlaces(n, {ArchivoAusente} \cup ArchivosPresentes(C, F))

Init ==
    /\ Arranque
    /\ fs \in Arboles(MaxArchivos, ContenidosPrograma, FechasPrograma)
    /\ corrida = 1
    /\ previa_limpia = FALSE

\* main, lines 172-180: the path is read and checked; the title of line 172
\* or the prompt of line 174 may raise before anything is read, input may
\* raise at the end of standard input, the message of line 179 may raise
\* after the path was found invalid
PedirCarpeta ==
    /\ pc = "inicio"
    /\ \E titulo \in ResultadosEscritura :
       \E leido \in ResultadosEntrada :
          IF ~titulo \/ ~leido
          THEN /\ pc' = "fin"
               /\ excepcion' = IF ~titulo THEN "salida" ELSE "entrada"
               /\ UNCHANGED <<carpeta, mensaje>>
          ELSE \E r \in EntradasCarpeta :
               \E escrito \in ResultadosEscritura :
                  /\ carpeta' = strip_comillas(strip(r))
                  /\ IF ~os_path_isdir(carpeta')
                     THEN /\ pc' = "fin"
                          /\ mensaje' = IF escrito THEN "ruta_invalida"
                                                   ELSE mensaje
                          /\ excepcion' = IF escrito THEN excepcion
                                                     ELSE "salida"
                     ELSE /\ escrito
                          /\ pc' = "buscar"
                          /\ UNCHANGED <<mensaje, excepcion>>
    /\ UNCHANGED <<fs, duplicados, listado, confirmar, numero_grupo, rutas,
                   mas_reciente, copias, i_copia, total_eliminados, intentos,
                   conservados, corrida, previa_limpia>>

\* main, lines 182-186; a print of buscar_duplicados (lines 50 and 71) or of
\* obtener_hash (line 34) that raises leaves duplicados unassigned, the print
\* of line 185 that raises leaves it empty
Buscar ==
    /\ pc = "buscar"
    /\ \E escrito \in ResultadosEscritura :
          IF ~escrito
          THEN /\ pc' = "fin"
               /\ excepcion' = "salida"
               /\ UNCHANGED <<duplicados, mensaje>>
          ELSE /\ duplicados' = buscar_duplicados(fs, carpeta)
               /\ IF SinDuplicados(duplicados')
                  THEN mensaje' = "sin_duplicados" /\ pc' = "fin"
                  ELSE mensaje' = mensaje /\ pc' = "mostrar"
               /\ UNCHANGED excepcion
    /\ UNCHANGED <<fs, carpeta, listado, confirmar, numero_grupo, rutas,
                   mas_reciente, copias, i_copia, total_eliminados, intentos,
                   conservados, corrida, previa_limpia>>

\* main, line 188: mostrar_duplicados_encontrados only prints (lines 147-161);
\* a print that raises ends the run with the listing unfinished
Mostrar ==
    /\ pc = "mostrar"
    /\ \E escrito \in ResultadosEscritura :
          IF escrito
          THEN listado' = TRUE /\ pc' = "confirmar" /\ UNCHANGED excepcion
          ELSE listado' = listado /\ pc' = "fin" /\ excepcion' = "salida"
    /\ UNCHANGED <<fs, carpeta, duplicados, confirmar, numero_grupo, rutas,
                   mas_reciente, copias, i_copia, total_eliminados, intentos,
                   conservados, mensaje, corrida, previa_limpia>>

\* main, lines 190-198, and lines 110-111 when eliminar_duplicados is entered;
\* the prompt of line 190 may raise before the answer is read, input may raise
\* at the end of standard input, the message of line 198 may raise after the
\* answer was found not to be "si"
Confirmar ==
    /\ pc = "confirmar"
    /\ \E pregunta \in ResultadosEscritura :
       \E leido \in ResultadosEntrada :
          IF ~pregunta \/ ~leido
          THEN /\ pc' = "fin"
               /\ excepcion' = IF ~pregunta THEN "salida" ELSE "entrada"
               /\ UNCHANGED <<confirmar, total_eliminados, numero_grupo,
                              mensaje>>
          ELSE \E r \in Respuestas :
               \E escrito \in ResultadosEscritura :
                  /\ confirmar' = lower(strip(r))
                  /\ IF EsAfirmativa(confirmar')
                     THEN /\ escrito
                          /\ pc' = "elim_grupo"
                          /\ total_eliminados' = 0
                          /\ numero_grupo' = 1
                          /\ UNCHANGED <<mensaje, excepcion>>
                     ELSE /\ pc' = "fin"
                          /\ mensaje' = IF escrito THEN "cancelada"
                                                   ELSE mensaje
                          /\ excepcion' = IF escrito THEN excepcion
                                                     ELSE "salida"
                          /\ UNCHANGED <<total_eliminados, numero_grupo>>
    /\ UNCHANGED <<fs, carpeta, duplicados, listado, rutas, mas_reciente,
                   copias, i_copia, intentos, conservados, corrida,
                   previa_limpia>>

\* eliminar_duplicados, lines 113-122: the next group is resolved and printed;
\* the heading of line 114 may raise before archivo_mas_reciente is called,
\* lines 117-118 before the keep path is printed, lines 119-122 after it
ElimGrupo ==
    /\ pc = "elim_grupo"
    /\ numero_grupo <= Len(duplicados)
    /\ \E encabezado, conserva, lista \in ResultadosEscritura :
          IF ~encabezado
          THEN /\ pc' = "fin"
               /\ excepcion' = "salida"
               /\ UNCHANGED <<rutas, mas_reciente, copias, conservados,
                              i_copia>>
          ELSE /\ rutas' = duplicados[numero_grupo].rutas
               /\ LET r == archivo_mas_reciente(fs, rutas')
                  IN  /\ mas_reciente' = r.mas_reciente
                      /\ copias' = r.copias
                      /\ conservados' =
                            IF conserva
                            THEN Append(conservados, r.mas_reciente)
                            ELSE conservados
               /\ IF conserva /\ lista
                  THEN /\ i_copia' = 1
                       /\ pc' = "elim_copia"
                       /\ UNCHANGED excepcion
                  ELSE /\ i_copia' = i_copia
                       /\ pc' = "fin"
                       /\ excepcion' = "salida"
    /\ UNCHANGED <<fs, carpeta, duplicados, listado, confirmar, numero_grupo,
                   total_eliminados, intentos, mensaje, corrida, previa_limpia>>

\* eliminar_duplicados, lines 125-131: one pass of the removal loop; when the
\* print of the except clause raises too, the exception leaves the loop, the
\* function and main
ElimCopia ==
    /\ pc = "elim_copia"
    /\ i_copia <= Len(copias)
    /\ LET copia == copias[i_copia]
       IN  \E ok \in ResultadosRemove(fs, copia) :
           \E impreso \in ResultadosPrint(ok) :
           \E informado \in ResultadosInforme(ok, impreso) :
              /\ fs' = os_remove(fs, copia, ok)
              /\ intentos' = Append(intentos, <<copia, ok>>)
              /\ total_eliminados' = Contar(total_eliminados, ok, impreso)
              /\ i_copia' = SiguienteCopia(i_copia, Len(copias), ok)
              /\ pc' = IF informado THEN pc ELSE "fin"
              /\ excepcion' = IF informado THEN excepcion ELSE "salida"
    /\ UNCHANGED <<carpeta, duplicados, listado, confirmar, numero_grupo,
                   rutas, mas_reciente, copias, conservados, mensaje, corrida,
                   previa_limpia>>

\* eliminar_duplicados, lines 133-134: the removal loop is over; the blank
\* line of line 133 may raise
ElimSiguienteGrupo ==
    /\ pc = "elim_copia"
    /\ i_copia > Len(copias)
    /\ \E escrito \in ResultadosEscritura :
          IF escrito
          THEN /\ numero_grupo' = numero_grupo + 1
               /\ pc' = "elim_grupo"
               /\ UNCHANGED excepcion
          ELSE /\ numero_grupo' = numero_grupo
               /\ pc' = "fin"
               /\ excepcion' = "salida"
    /\ UNCHANGED <<fs, carpeta, duplicados, listado, confirmar, rutas,
                   mas_reciente, copias, i_copia, total_eliminados, intentos,
                   conservados, mensaje, corrida, previa_limpia>>

\* eliminar_duplicados, lines 136-139: the summary, after the last group; the
\* run is over whether the summary was written or its print raised
ElimResumen ==
    /\ pc = "elim_grupo"
    /\ numero_grupo > Len(duplicados)
    /\ \E escrito \in ResultadosEscritura :
          /\ mensaje' = IF escrito THEN "completado" ELSE mensaje
          /\ excepcion' = IF escrito THEN excepcion ELSE "salida"
    /\ pc' = "fin"
    /\ UNCHANGED <<fs, carpeta, duplicados, listado, confirmar, numero_grupo,
                   rutas, mas_reciente, copias, i_copia, total_eliminados,
                   intentos, conservados, corrida, previa_limpia>>

TodosEliminados == \A k \in 1 .. Len(intentos) : intentos[k][2]

\* the script is started again on the same tree; nothing but the file
\* system survives a run
Reiniciar ==
    /\ pc = "fin"
    /\ corrida < MaxCorridas
    /\ corrida' = corrida + 1
    /\ previa_limpia' = (mensaje = "completado" /\ TodosEliminados)
    /\ pc' = "inicio"
    /\ carpeta' = <<>>
    /\ duplicados' = <<>>
    /\ listado' = FALSE
    /\ confirmar' = <<>>
    /\ numero_grupo' = 0
    /\ rutas' = <<>>
    /\ mas_reciente' = 0
    /\ copias' = <<>>
    /\ i_copia' = 0
    /\ total_eliminados' = 0
    /\ intentos' = <<>>
    /\ conservados' = <<>>
    /\ mensaje' = ""
    /\ excepcion' = ""
    /\ UNCHANGED fs

Eliminar == ElimGrupo \/ ElimCopia \/ ElimSiguienteGrupo \/ ElimResumen

Programa == PedirCarpeta \/ Buscar \/ Mostrar \/ Confirmar \/ Eliminar

Next == Programa \/ Reiniciar

Spec == Init /\ [][Next]_vars

-----------------------------------------------------------------------------
(* One run of the program, taken to its end: every statement of the script    *)
(* returns or raises, and so does input at both prompts (the user answers, or  *)
(* standard input ends)                                                       *)

\* a file that cannot be read joins no group: nothing looks at its content or
\* at its modification time, and one record stands for all of them
ArbolesTermina(n, C, F) ==
    ConEnlaces(n, {a \in {ArchivoAusente} \cup ArchivosPresentes(C, F) :
                     (a.existe /\ ~a.legible) =>
                        (a.contenido = <<>> /\ a.estatable /\ a.fecha = 0)})

InitTermina ==
    /\ Arranque
    /\ fs \in ArbolesTermina(MaxArchivosTermina, ContenidosPrograma,
                             FechasPrograma)
    /\ corrida = 1
    /\ previa_limpia = FALSE

SpecTermina == InitTermina /\ [][Programa]_vars /\ WF_vars(Programa)

-----------------------------------------------------------------------------
(* buscar_duplicados called on its own, with any root *)

InitBuscar ==
    /\ pc = "llamar_buscar"
    /\ carpeta \in Carpetas
    /\ fs \in ConEnlaces(MaxArchivosBuscar,
                 {a \in {ArchivoAusente} \cup ArchivosPresentes(Contenidos, {0}) :
                    a.existe => a.estatable})
    /\ duplicados = <<>>
    /\ listado = FALSE
    /\ confirmar = <<>>
    /\ numero_grupo = 0
    /\ rutas = <<>>
    /\ mas_reciente = 0
    /\ copias = <<>>
    /\ i_copia = 0
    /\ total_eliminados = 0
    /\ intentos = <<>>
    /\ conservados = <<>>
    /\ mensaje = ""
    /\ corrida = 1
    /\ previa_limpia = FALSE
    /\ excepcion = ""

\* lines 49-72: the function runs to its return statement, or one of its
\* prints (lines 50, 34, 71) raises and so does the call
LlamarBuscar ==
    /\ pc = "llamar_buscar"
    /\ \E escrito \in ResultadosEscritura :
          IF escrito
          THEN /\ duplicados' = buscar_duplicados(fs, carpeta)
               /\ pc' = "retorno"
               /\ UNCHANGED excepcion
          ELSE /\ duplicados' = duplicados
               /\ pc' = "excepcion"
               /\ excepcion' = "salida"
    /\ UNCHANGED <<fs, carpeta, listado, confirmar, numero_grupo, rutas,
                   mas_reciente, copias, i_copia, total_eliminados, intentos,
                   conservados, mensaje, corrida, previa_limpia>>

SpecBuscar == InitBuscar /\ [][LlamarBuscar]_vars

-----------------------------------------------------------------------------
(* archivo_mas_reciente called on its own, with any list of distinct paths *)

SinRepetidos(rs) == \A a, b \in 1 .. Len(rs) : rs[a] = rs[b] => a = b

Listas(n) ==
    {rs \in UNION {[1 .. k -> 1 .. n] : k \in 1 .. n} : SinRepetidos(rs)}

\* the files of the list exist; what varies is whether and what getmtime
\* answers
ArchivosFechados(F) ==
    {a \in ArchivosPresentes({<<>>}, F) : a.legible}

InitReciente ==
    /\ pc = "llamar_reciente"
    /\ fs \in ConEnlaces(MaxRutas, ArchivosFechados(Fechas))
    /\ rutas \in Listas(MaxRutas)
    /\ carpeta = <<>>
    /\ duplicados = <<>>
    /\ listado = FALSE
    /\ confirmar = <<>>
    /\ numero_grupo = 0
    /\ mas_reciente = 0
    /\ copias = <<>>
    /\ i_copia = 0
    /\ total_eliminados = 0
    /\ intentos = <<>>
    /\ conservados = <<>>
    /\ mensaje = ""
    /\ corrida = 1
    /\ previa_limpia = FALSE
    /\ excepcion = ""

\* lines 83-100: the function runs to its return statement
LlamarReciente ==
    /\ pc = "llamar_reciente"
    /\ LET r == archivo_mas_reciente(fs, rutas)
       IN  /\ mas_reciente' = r.mas_reciente
           /\ copias' = r.copias
    /\ pc' = "retorno"
    /\ UNCHANGED <<fs, carpeta, duplicados, listado, confirmar, numero_grupo,
                   rutas, i_copia, total_eliminados, intentos, conservados,
                   mensaje, corrida, previa_limpia, excepcion>>

SpecReciente == InitReciente /\ [][LlamarReciente]_vars

-----------------------------------------------------------------------------
(* eliminar_duplicados called on its own, with the groups of any tree of     *)
(* readable files                                                            *)

ArbolesLegibles(n, C, F) ==
    ConEnlaces(n, {a \in ArchivosPresentes(C, F) : a.legible})

InitEliminar ==
    /\ pc = "elim_grupo"
    /\ carpeta = RutaDir
    /\ fs \in ArbolesLegibles(MaxArchivosElim, Contenidos, FechasPrograma)
    /\ duplicados = buscar_duplicados(fs, carpeta)
    /\ listado = TRUE
    /\ confirmar = <<115, 105>>
    /\ numero_grupo = 1
    /\ rutas = <<>>
    /\ mas_reciente = 0
    /\ copias = <<>>
    /\ i_copia = 0
    /\ total_eliminados = 0
    /\ intentos = <<>>
    /\ conservados = <<>>
    /\ mensaje = ""
    /\ corrida = 1
    /\ previa_limpia = FALSE
    /\ excepcion = ""

SpecEliminar == InitEliminar /\ [][Eliminar]_vars

-----------------------------------------------------------------------------
(* Properties *)

Miembros(rs) == {rs[k] : k \in 1 .. Len(rs)}

\* the timestamp archivo_mas_reciente is specified to see: 0 for a failed stat
FechaVista(p) ==
    IF Destino(fs, p) # 0 /\ fs[Destino(fs, p)].estatable
    THEN fs[Destino(fs, p)].fecha ELSE 0

SeLeeFecha(p) == Destino(fs, p) # 0 /\ fs[Destino(fs, p)].estatable

\* C1: archivo_mas_reciente, given pairwise-distinct paths, returns one member
\* as the keep path and exactly the other members, in their order, as the
\* copies; the keep path's timestamp (0 for a failed stat) is at least that of
\* every member.
C1_Retencion ==
    pc = "llamar_reciente" \/
    ( /\ pc = "retorno"
      /\ mas_reciente \in Miembros(rutas)
      /\ copias = SelectSeq(rutas, LAMBDA r : r # mas_reciente)
      /\ Miembros(copias) = Miembros(rutas) \ {mas_reciente}
      /\ Len(copias) = Len(rutas) - 1
      /\ \A r \in Miembros(rutas) : FechaVista(mas_reciente) >= FechaVista(r) )

\* three paths with three different timestamps, the newest not the first
C1_Testigo ==
    /\ pc = "retorno"
    /\ Len(rutas) = 3
    /\ Cardinality({FechaVista(r) : r \in Miembros(rutas)}) = 3
    /\ mas_reciente # rutas[1]
    /\ Len(copias) = 2

\* C2: a file whose timestamp cannot be read is never the keep path when some
\* other member of the list has a readable timestamp, whatever that timestamp
\* is and wherever the unreadable file stands.
C2_FailSafe ==
    (pc = "retorno" /\ \E r \in Miembros(rutas) : SeLeeFecha(r))
        => SeLeeFecha(mas_reciente)

\* "si"
Si == <<115, 105>>

\* C3: the file system changes only in the removal loop, after the groups were
\* listed and the normalised answer was exactly "si"; a run that ends on an
\* invalid root, on no duplicates or on any other answer has called os.remove
\* on nothing.
C3_SoloTrasConfirmar ==
    /\ [][fs' # fs => (pc = "elim_copia" /\ listado /\ confirmar = Si)]_vars
    /\ [](intentos # <<>> => (listado /\ confirmar = Si))
    /\ [](pc \in {"elim_grupo", "elim_copia"} => (listado /\ confirmar = Si))
    /\ []((pc = "fin" /\ (~os_path_isdir(carpeta) \/ duplicados = <<>>
                            \/ confirmar # Si))
             => (intentos = <<>> /\ total_eliminados = 0))

\* a file has been removed in a run whose groups were listed
C3_Testigo ==
    /\ listado
    /\ confirmar = Si
    /\ \E k \in 1 .. Len(intentos) :
          intentos[k][2] /\ ~fs[intentos[k][1]].existe

\* the groups were listed and the answer was not "si": the run is over
C3_TestigoCancelada ==
    pc = "fin" /\ listado /\ confirmar = <<110, 111>> /\ mensaje = "cancelada"

Veces(p) == Cardinality({k \in 1 .. Len(intentos) : intentos[k][1] = p})

\* the delete candidates of group g: its members but the path kept for it
Candidatos(g) == Miembros(duplicados[g].rutas) \ {conservados[g]}

RECURSIVE SumaCandidatos(_)
SumaCandidatos(g) ==
    IF g = 0 THEN 0
    ELSE SumaCandidatos(g - 1) + (Len(duplicados[g].rutas) - 1)

\* C4: when a call of eliminar_duplicados in which a removal failed is over,
\* os.remove has been called exactly once on every delete candidate of every
\* group, whichever calls failed.
C4_FalloParcial ==
    (pc = "fin" /\ \E k \in 1 .. Len(intentos) : ~intentos[k][2]) =>
        /\ Len(conservados) = Len(duplicados)
        /\ \A g \in 1 .. Len(duplicados) :
              \A r \in Candidatos(g) : Veces(r) = 1
        /\ Len(intentos) = SumaCandidatos(Len(duplicados))

EnGrupo(p) == \E g \in 1 .. Len(duplicados) : p \in Miembros(duplicados[g].rutas)

\* position of p's group
GrupoDe(p) ==
    CHOOSE g \in 1 .. Len(duplicados) : p \in Miembros(duplicados[g].rutas)

\* C7: os.remove is called only on non-keep members of the supplied groups, in
\* the groups' order: a file of no group and the keep path of a processed group
\* are still there.
C7_SoloCopias ==
    /\ \A k \in 1 .. Len(intentos) :
          LET p == intentos[k][1]
          IN  /\ EnGrupo(p)
              /\ GrupoDe(p) <= Len(conservados)
              /\ p # conservados[GrupoDe(p)]
    /\ \A p \in DOMAIN fs : ~EnGrupo(p) => fs[p].existe
    /\ \A g \in 1 .. Len(conservados) :
          /\ conservados[g] \in Miembros(duplicados[g].rutas)
          /\ fs[conservados[g]].existe
    /\ \A p \in DOMAIN fs : ~fs[p].existe => Veces(p) >= 1

\* files 1 and 2 are identical and 2 is the newer, file 3 is unique: only 1
\* was removed and the total is 1
C7_Testigo ==
    /\ pc = "fin"
    /\ mensaje = "completado"
    /\ Len(duplicados) = 1
    /\ duplicados[1].rutas = <<1, 2>>
    /\ fs[2].enlace = 0 /\ fs[2].estatable /\ fs[2].fecha = 1
    /\ fs[3].enlace = 0
    /\ conservados = <<2>>
    /\ intentos = << <<1, TRUE>> >>
    /\ ~fs[1].existe /\ fs[2].existe /\ fs[3].existe
    /\ ~EnGrupo(3)
    /\ total_eliminados = 1

Exitos == Cardinality({k \in 1 .. Len(intentos) : intentos[k][2]})

\* C8: total_eliminados is at every moment the number of os.remove calls that
\* succeeded, which is the number of entries gone from the tree, and never
\* exceeds the sum over the groups of (size - 1).
C8_Total ==
    /\ total_eliminados = Exitos
    /\ total_eliminados = Cardinality({p \in DOMAIN fs : ~fs[p].existe})
    /\ total_eliminados <= SumaCandidatos(Len(duplicados))

\* the files of the tree whose fingerprinting succeeds
Huellados ==
    {p \in DOMAIN fs : Destino(fs, p) # 0 /\ fs[Destino(fs, p)].legible}

\* the bytes read through a path
Leido(p) == fs[Destino(fs, p)].contenido

\* the digest of a fingerprinted file stands for its content
MismaHuella(p, q) == Leido(p) = Leido(q)

\* C5: for a root that is a directory, the mapping buscar_duplicados returns is
\* the partition by digest of the fingerprinted files, restricted to digests
\* that two or more files share: keys are distinct, every member hashes to its
\* group's key, groups have 2 or more distinct members, no path is in two
\* groups, every fingerprinted file that shares its digest is in a group, and
\* a file whose fingerprinting failed is in none.
C5_Particion ==
    (pc = "retorno" /\ os_path_isdir(carpeta)) =>
        /\ \A g, h \in 1 .. Len(duplicados) :
              duplicados[g].hash = duplicados[h].hash => g = h
        /\ \A g \in 1 .. Len(duplicados) :
              LET rs == duplicados[g].rutas
              IN  /\ Len(rs) >= 2
                  /\ SinRepetidos(rs)
                  /\ duplicados[g].hash # None
                  /\ \A r \in Miembros(rs) :
                        /\ r \in Huellados
                        /\ duplicados[g].hash = <<"sha256", Leido(r)>>
                  /\ \A a, b \in 1 .. Len(rs) : a < b => rs[a] < rs[b]
        /\ \A g, h \in 1 .. Len(duplicados) :
              g # h => Miembros(duplicados[g].rutas)
                          \cap Miembros(duplicados[h].rutas) = {}
        /\ \A p \in Huellados :
              (\E q \in Huellados : q # p /\ MismaHuella(p, q)) => EnGrupo(p)
        /\ \A p \in DOMAIN fs : p \notin Huellados => ~EnGrupo(p)

\* a group was returned, and a file with the group's content that could not
\* be read is left out of it; another file is alone with its content
C5_Testigo ==
    /\ pc = "retorno"
    /\ Len(duplicados) = 1
    /\ \E p \in DOMAIN fs :
          /\ fs[p].existe /\ fs[p].enlace = 0 /\ ~fs[p].legible
          /\ <<"sha256", fs[p].contenido>> = duplicados[1].hash
          /\ ~EnGrupo(p)
    /\ \E p \in Huellados : ~EnGrupo(p)

\* two groups were returned
C5_TestigoDosGrupos == pc = "retorno" /\ Len(duplicados) = 2

\* C6 as stated: buscar_duplicados does not return a mapping when its root is
\* missing or is no directory.
C6_FallaConRaizInvalida == pc = "retorno" => os_path_isdir(carpeta)

\* C6 amended: buscar_duplicados, given a root that is missing or is no
\* directory, raises nothing of its own: when it returns, it returns the
\* empty mapping.
C6_RaizInvalidaDaVacio ==
    (pc = "retorno" /\ ~os_path_isdir(carpeta)) => duplicados = <<>>

\* the call returned for a missing root while the tree holds two readable
\* files with the same content
C6_Testigo ==
    /\ pc = "retorno"
    /\ carpeta = RutaInexistente
    /\ \E p, q \in Huellados : p # q /\ MismaHuella(p, q)

\* C9 as stated, for the runs in which main returns: a run that ends without
\* the summary ended on an invalid root or on an empty set of groups.
C9_SoloRaizOVacio ==
    (pc = "fin" /\ excepcion = "" /\ mensaje # "completado")
        => (~os_path_isdir(carpeta) \/ duplicados = <<>>)

\* C9 amended: provided input returns or raises at both prompts, every run
\* ends, whatever reads, stats and removals failed.  No file error raises out
\* of main: the only exceptions that end a run are that of a write to standard
\* output and the EOFError of input, and a run without them ends with a
\* message: the summary exactly when the root was a directory, duplicates
\* were found and the answer was "si", and otherwise the invalid root, no
\* duplicates, or the cancelled confirmation.
C9_SiempreTermina ==
    /\ (pc = "inicio") ~> (pc = "fin")
    /\ [](excepcion \in {"", "salida", "entrada"})
    /\ [](excepcion # "" => (pc = "fin" /\ mensaje = ""))
    /\ []((pc = "fin" /\ excepcion = "") =>
            /\ mensaje \in {"completado", "ruta_invalida", "sin_duplicados",
                            "cancelada"}
            /\ mensaje = "completado"
                  <=> (os_path_isdir(carpeta) /\ duplicados # <<>>
                         /\ confirmar = Si)
            /\ mensaje = "ruta_invalida" <=> ~os_path_isdir(carpeta)
            /\ mensaje = "sin_duplicados"
                  <=> (os_path_isdir(carpeta) /\ duplicados = <<>>)
            /\ mensaje = "cancelada"
                  <=> (os_path_isdir(carpeta) /\ duplicados # <<>>
                         /\ confirmar # Si))

\* the summary was printed in a run without exception though a file of the
\* tree could not be read, the stat of a member of the group failed and a
\* removal failed
C9_Testigo ==
    /\ pc = "fin"
    /\ mensaje = "completado"
    /\ excepcion = ""
    /\ \E p \in DOMAIN fs : fs[p].existe /\ fs[p].enlace = 0 /\ ~fs[p].legible
    /\ \E p \in DOMAIN fs :
          /\ EnGrupo(p)
          /\ fs[p].existe /\ fs[p].enlace = 0 /\ ~fs[p].estatable
    /\ \E k \in 1 .. Len(intentos) : ~intentos[k][2]

\* os.path.exists(p): the entry is there and leads to a file
os_path_exists(p) == Destino(fs, p) # 0

Restantes(g) == {p \in Miembros(duplicados[g].rutas) : os_path_exists(p)}

\* C10: when a confirmed run has printed its summary and every removal
\* succeeded, exactly one file of each group is left; in the run started next
\* on that tree buscar_duplicados finds no group and nothing is removed.
C10_Converge ==
    /\ (pc = "fin" /\ mensaje = "completado" /\ TodosEliminados) =>
          \A g \in 1 .. Len(duplicados) : Cardinality(Restantes(g)) = 1
    /\ previa_limpia =>
          /\ duplicados = <<>>
          /\ intentos = <<>>
          /\ pc \notin {"mostrar", "confirmar", "elim_grupo", "elim_copia"}
          /\ pc = "fin" => mensaje \notin {"completado", "cancelada"}

====
